---------------------------- MODULE Spec2Model ----------------------------
(***************************************************************************)
(* A model of the WhatsApp webhook views                                   *)
(* (src/whatsapp_integration/views.py): the GET verification handshake and *)
(* the POST ingestion pipeline (rate limit, signature, validation,         *)
(* identity, get_or_create, dispatch), run by concurrent request workers   *)
(* over a shared token bucket and a shared event store.                    *)
(*                                                                         *)
(* Text is a sequence of tokens.  A token is one character, except that    *)
(* the seven characters "sha256=" are the single token TAG and the 64 hex  *)
(* characters of one HMAC digest are a single token (a digest holds no     *)
(* "=", so neither can overlap the other).                                 *)
(***************************************************************************)
EXTENDS Integers, Sequences, FiniteSets, TLC

\* ------------------------------------------------------------------ bounds
NumReq == 2        \* concurrent request workers of Spec
MaxTime == 1       \* seconds the clock may advance
MaxEntries == 2    \* entries of an envelope (SpecOne, SpecSeq)
MaxSigLen == 4     \* tokens of a presented signature (SpecOne, SpecSeq)
MaxPosts == 2      \* requests the single worker of SpecSeq handles in a row

\* -------------------------------------------------------- program constants
MaxTokens == 10    \* max_tokens=10
RateNum == 3       \* rate_per_sec=1.5 = RateNum / RateDen
RateDen == 2

Requests == 1..NumReq

\* the callers of a burst on the limiter: one more than the bucket holds
Callers == 1..(MaxTokens + 1)

\* ------------------------------------------------------- Python values
None == <<"None">>                 \* the absent header / parameter / setting
PyNone == [t |-> "none", s |-> <<>>, n |-> 0]
PyStr(s) == [t |-> "str", s |-> s, n |-> 0]
PyInt(n) == [t |-> "int", s |-> <<>>, n |-> n]
Missing == [t |-> "missing", s |-> <<>>, n |-> 0]    \* a key the dict lacks

\* Python truthiness of a value: None, "" and 0 are false.
Truthy(v) ==
    CASE v.t = "none" -> FALSE
      [] v.t = "missing" -> FALSE
      [] v.t = "str" -> v.s /= <<>>
      [] v.t = "int" -> v.n /= 0

\* a or b
PyOr(a, b) == IF Truthy(a) THEN a ELSE b

\* dict.get(key): None for a key the dict lacks.
DictGet(e, key) == IF e[key].t = "missing" THEN PyNone ELSE e[key]

Digit(d) == <<"0", "1", "2", "3", "4", "5", "6", "7", "8", "9">>[d + 1]

RECURSIVE NatText(_)
NatText(n) == IF n < 10 THEN <<Digit(n)>> ELSE NatText(n \div 10) \o <<Digit(n % 10)>>

\* str(v) of a str or an int
PyStrOf(v) ==
    CASE v.t = "str" -> v.s
      [] v.t = "int" -> IF v.n < 0 THEN <<"-">> \o NatText(-v.n) ELSE NatText(v.n)
      [] OTHER -> <<"N", "o", "n", "e">>

\* sep.join(parts)
RECURSIVE Join(_, _)
Join(sep, parts) ==
    IF parts = <<>> THEN <<>>
    ELSE IF Len(parts) = 1 THEN parts[1]
    ELSE parts[1] \o <<sep>> \o Join(sep, Tail(parts))

\* a truthy text / header: neither None nor ""
TruthyText(s) == s /= None /\ s /= <<>>


\* ------------------------------------------------------------ the wire
TAG == "sha256="
NONASCII == "e-acute"              \* one character outside ASCII

Entry(id, time, changes) == [id |-> id, time |-> time, changes |-> changes]

Envelope(entries, object) == [kind |-> "envelope", entry |-> entries, object |-> object]
NotJson == [kind |-> "notjson", entry |-> <<>>, object |-> FALSE]
NonConforming == [kind |-> "nonconforming", entry |-> <<>>, object |-> FALSE]

\* hex(HMAC_SHA256(key, msg)): one digest token per (key, message) pair,
\* distinct pairs giving distinct digests.
HmacHexDigest(key, msg) == <<"hmac(" \o ToString(key) \o "," \o ToString(msg) \o ")">>

\* ------------------------------------------------- signature verification
\* signature.startswith("sha256=")
StartsWithTag(signature) == Len(signature) >= 1 /\ signature[1] = TAG

\* the tokens of s before its first TAG (all of s when it holds none)
RECURSIVE UpToTag(_)
UpToTag(s) ==
    IF s = <<>> \/ s[1] = TAG THEN <<>> ELSE <<s[1]>> \o UpToTag(Tail(s))

\* signature.split("sha256=")[1] of a text that starts with the tag: the piece
\* between its first and its second occurrence of the tag.
SplitTagSecond(signature) == UpToTag(Tail(signature))

\* lines 49-50: the signature that is compared
StrippedSignature(signature) ==
    IF StartsWithTag(signature) THEN SplitTagSecond(signature) ELSE signature

IsAscii(s) == \A i \in 1..Len(s) : s[i] /= NONASCII

\* hmac.compare_digest(a, b) of two str: "TypeError" when one holds a
\* character outside ASCII, else whether they are equal.
CompareDigest(a, b) ==
    IF ~(IsAscii(a) /\ IsAscii(b)) THEN "TypeError"
    ELSE IF a = b THEN "equal" ELSE "differ"

\* line 46: X-Hub-Signature-256 or X-Hub-Signature
PresentedSignature(sig256, legacy) == IF TruthyText(sig256) THEN sig256 ELSE legacy

\* line 45: if APP_SECRET
SecretConfiguredMutant(secret) == secret /= None
SecretConfigured(secret) == TruthyText(secret)

\* lines 45-53: "skip", "missing", "invalid", "TypeError" or "valid"
Verify(secret, raw, sig256, legacy) ==
    IF ~SecretConfigured(secret) THEN "skip"
    ELSE LET signature == PresentedSignature(sig256, legacy)
             cmp == CompareDigest(StrippedSignature(signature), HmacHexDigest(secret, raw))
         IN IF ~TruthyText(signature) THEN "missing"
            ELSE IF cmp = "TypeError" THEN "TypeError"
            ELSE IF cmp = "equal" THEN "valid" ELSE "invalid"

\* ------------------------------------------------------- event identity
ValueList == <<Missing, PyStr(<<>>), PyStr(<<"A">>), PyStr(<<"B">>), PyInt(0), PyInt(7)>>
ValueCode(v) == CHOOSE i \in 1..Len(ValueList) : ValueList[i] = v
EntryCode(e) == ValueCode(e.id) * 14 + ValueCode(e.time) * 2 + (IF e.changes THEN 1 ELSE 0)

RECURSIVE EntriesCode(_)
EntriesCode(es) ==
    IF es = <<>> THEN 1 ELSE EntriesCode(Tail(es)) * 100 + EntryCode(es[1])

\* hash(str(payload)): an integer; distinct payloads have distinct texts, and
\* the hash is taken to be free of collisions on them and far from the ids and
\* times in use.
PyHash(payload) == 1000 + 2 * EntriesCode(payload.entry) + (IF payload.object THEN 1 ELSE 0)

\* line 61, per entry: str(e.get("id") or e.get("time") or "")
EntryKey(e) == PyStrOf(PyOr(PyOr(DictGet(e, "id"), DictGet(e, "time")), PyStr(<<>>)))

EntryKeys(entry) == [i \in 1..Len(entry) |-> EntryKey(entry[i])]

\* line 61: "|".join([...]) or str(hash(str(payload)))
EventId(payload) ==
    LET joined == Join("|", EntryKeys(payload.entry))
    IN IF joined /= <<>> THEN joined ELSE PyStrOf(PyInt(PyHash(payload)))


\* ------------------------------------------------------------- the state
VARIABLES
    settings,       \* django.conf.settings: WHATSAPP_VERIFY_TOKEN, WHATSAPP_APP_SECRET
    VERIFY_TOKEN,   \* views.VERIFY_TOKEN, read from settings when views is imported
    APP_SECRET,     \* views.APP_SECRET, read from settings when views is imported
    bucket,         \* the limiter's bucket of key "whatsapp:webhook" in the shared store
    now,            \* the clock, in seconds
    store,          \* the WhatsAppWebhookEvent table
    nextId,         \* the table's next primary key
    dispatched,     \* the calls of dispatch_event.delay
    req,            \* the request each worker is handling
    posts,          \* requests received so far; a request's number is its place
    calls           \* what allow() returned to each direct caller of the limiter

vars == <<settings, VERIFY_TOKEN, APP_SECRET, bucket, now, store, nextId, dispatched, req, posts, calls>>

Secret == <<"s">>
Token == <<"t">>

IdleReq ==
    [pc |-> "idle", no |-> 0, method |-> "", sig256 |-> None, legacy |-> None, body |-> NotJson,
     mode |-> None, token |-> None, challenge |-> None,
     verify |-> "", event_id |-> <<>>, created |-> FALSE, objId |-> 0,
     integrityError |-> FALSE, delayCalls |-> 0,
     allowCalls |-> 0, allowed |-> FALSE, warnings |-> 0, steps |-> <<>>,
     status |-> 0, kind |-> "", reply |-> "", content |-> None]

\* ------------------------------------------------- the token bucket limiter
Min(a, b) == IF a < b THEN a ELSE b

\* Tokens are counted in units of 1/RateDen token, so that RateNum/RateDen
\* tokens per second is a whole number of units per second.
FullBucket == MaxTokens * RateDen

\* tokens = min(capacity, tokens + elapsed * rate); a key not yet in the store
\* starts full.
RefilledMutant(b, t) ==
    IF ~b.exists THEN FullBucket ELSE b.tokens + (t - b.last) * RateNum
Refilled(b, t) ==
    IF ~b.exists THEN FullBucket
    ELSE Min(FullBucket, b.tokens + (t - b.last) * RateNum)

\* allow(): true iff the refilled bucket holds one token
AllowGrants(b, t) == Refilled(b, t) >= RateDen

\* the bucket allow() persists
BucketAfterMutant(b, t) == [exists |-> TRUE, tokens |-> Refilled(b, t), last |-> t]
BucketAfter(b, t) ==
    [exists |-> TRUE,
     tokens |-> IF AllowGrants(b, t) THEN Refilled(b, t) - RateDen ELSE Refilled(b, t),
     last |-> t]

\* ------------------------------------------------------------ the store
\* line 63: get_or_create looks the row up by event_id alone (the payload is
\* among the defaults, used only to create).
LookupMutant(event_id, payload) ==
    {rec \in store : rec.event_id = event_id /\ rec.payload = payload}
Lookup(event_id, payload) == {rec \in store : rec.event_id = event_id}

\* The unique index on event_id refuses a second row of an identity.
IntegrityError(event_id) == \E rec \in store : rec.event_id = event_id

\* line 63: get_or_create, its insert refused, looks the row up again and
\* returns it; it raises only when that lookup finds nothing.
ConflictResultMutant(found) == "IntegrityError"
ConflictResult(found) == IF found = {} THEN "IntegrityError" ELSE "fetched"

\* ------------------------------------------------------------ responses
\* Response(data, status): kind names the shape of the body, a JSON object
\* with a "detail" or a "status" field, the serializer's errors, the bare
\* data of the handshake, or the server error of an exception nobody caught.
Respond(r, step, code, kind, reply) ==
    [req[r] EXCEPT !.pc = "done", !.steps = @ \o <<step>>,
                   !.status = code, !.kind = kind, !.reply = reply]

\* lines 64-65: if not created: return duplicate
ReturnsDuplicateMutant(created) == FALSE
ReturnsDuplicate(created) == ~created

\* line 40: if not RATE_LIMITER.allow(...)
RateDeniedMutant(granted) == FALSE
RateDenied(granted) == ~granted


\* ------------------------------------------------------- POST /webhook
\* A request arrives at worker r: its headers and its body.
StartPost(r, inputs) ==
    /\ req[r].pc = "idle"
    /\ \E inp \in inputs :
         req' = [req EXCEPT ![r] = [IdleReq EXCEPT !.pc = "rate", !.method = "POST",
                                       !.no = posts + 1, !.body = inp.body,
                                       !.sig256 = inp.sig256, !.legacy = inp.legacy]]
    /\ posts' = posts + 1
    /\ UNCHANGED <<settings, VERIFY_TOKEN, APP_SECRET, bucket, now, store, nextId, dispatched, calls>>

\* lines 40-42: one atomic allow() on the shared bucket; a denial is logged
\* and answered 429.
RateLimitMutant(r) ==
    /\ req[r].pc = "rate"
    /\ req' = [req EXCEPT ![r] = [@ EXCEPT !.pc = "signature", !.steps = @ \o <<"rate">>]]
    /\ UNCHANGED <<settings, VERIFY_TOKEN, APP_SECRET, bucket, now, store, nextId, dispatched, posts, calls>>
RateLimit(r) ==
    /\ req[r].pc = "rate"
    /\ LET granted == AllowGrants(bucket, now)
           seen == [req[r] EXCEPT !.allowCalls = @ + 1, !.allowed = granted]
       IN /\ bucket' = BucketAfter(bucket, now)
          /\ req' = [req EXCEPT ![r] =
                IF RateDenied(granted)
                THEN [seen EXCEPT !.pc = "done", !.steps = @ \o <<"rate">>,
                                  !.warnings = @ + 1, !.status = 429,
                                  !.kind = "detail", !.reply = "Rate limit exceeded"]
                ELSE [seen EXCEPT !.pc = "signature", !.steps = @ \o <<"rate">>]]
    /\ UNCHANGED <<settings, VERIFY_TOKEN, APP_SECRET, now, store, nextId, dispatched, posts, calls>>

\* lines 44-53: the signature check over the raw body.
CheckSignature(r) ==
    /\ req[r].pc = "signature"
    /\ LET v == Verify(APP_SECRET, req[r].body, req[r].sig256, req[r].legacy)
           seen == [req[r] EXCEPT !.verify = v]
       IN req' = [req EXCEPT ![r] =
            CASE v = "missing" ->
                   [seen EXCEPT !.pc = "done", !.steps = @ \o <<"signature">>, !.status = 403,
                                !.kind = "detail", !.reply = "Missing signature"]
              [] v = "invalid" ->
                   [seen EXCEPT !.pc = "done", !.steps = @ \o <<"signature">>, !.status = 403,
                                !.kind = "detail", !.reply = "Invalid signature"]
              [] v = "TypeError" ->
                   [seen EXCEPT !.pc = "done", !.steps = @ \o <<"signature">>, !.status = 500,
                                !.kind = "exception", !.reply = "TypeError"]
              [] OTHER ->
                   [seen EXCEPT !.pc = "validate", !.steps = @ \o <<"signature">>]]
    /\ UNCHANGED <<settings, VERIFY_TOKEN, APP_SECRET, bucket, now, store, nextId, dispatched, posts, calls>>

\* lines 55-57: request.data parses the body (a body that is no JSON is
\* answered 400 with a detail), then the serializer validates the envelope
\* (its errors are answered 400).
ValidateMutant(r) ==
    /\ req[r].pc = "validate"
    /\ req' = [req EXCEPT ![r] =
            IF req[r].body.kind = "notjson"
            THEN Respond(r, "validate", 400, "detail", "JSON parse error")
            ELSE [req[r] EXCEPT !.pc = "identity", !.steps = @ \o <<"validate">>]]
    /\ UNCHANGED <<settings, VERIFY_TOKEN, APP_SECRET, bucket, now, store, nextId, dispatched, posts, calls>>
Validate(r) ==
    /\ req[r].pc = "validate"
    /\ req' = [req EXCEPT ![r] =
            CASE req[r].body.kind = "notjson" ->
                   Respond(r, "validate", 400, "detail", "JSON parse error")
              [] req[r].body.kind = "nonconforming" ->
                   Respond(r, "validate", 400, "errors", "serializer.errors")
              [] OTHER ->
                   [req[r] EXCEPT !.pc = "identity", !.steps = @ \o <<"validate">>]]
    /\ UNCHANGED <<settings, VERIFY_TOKEN, APP_SECRET, bucket, now, store, nextId, dispatched, posts, calls>>

\* lines 59-61: the event identity of the validated payload.
ComputeIdentity(r) ==
    /\ req[r].pc = "identity"
    /\ req' = [req EXCEPT ![r] =
            [@ EXCEPT !.pc = "get", !.steps = @ \o <<"identity">>,
                      !.event_id = EventId(req[r].body)]]
    /\ UNCHANGED <<settings, VERIFY_TOKEN, APP_SECRET, bucket, now, store, nextId, dispatched, posts, calls>>

\* lines 63-65 once get_or_create has returned (obj, created)
AdmittedMutant(r, obj, created) ==
    LET got == [req[r] EXCEPT !.created = created, !.objId = obj.id,
                              !.steps = @ \o <<"admit">>]
    IN IF ~created /\ \E d \in dispatched : d.id = obj.id /\ d.ok
       THEN [got EXCEPT !.pc = "done", !.status = 200, !.kind = "status",
                        !.reply = "duplicate"]
       ELSE [got EXCEPT !.pc = "dispatch"]
Admitted(r, obj, created) ==
    LET got == [req[r] EXCEPT !.created = created, !.objId = obj.id,
                              !.steps = @ \o <<"admit">>]
    IN IF ReturnsDuplicate(created)
       THEN [got EXCEPT !.pc = "done", !.status = 200, !.kind = "status",
                        !.reply = "duplicate"]
       ELSE [got EXCEPT !.pc = "dispatch"]

\* line 63, get_or_create's lookup: a row of the identity is returned with
\* created = False; with none, the insert follows.
GetOrCreateGetMutant(r) ==
    /\ req[r].pc = "get"
    /\ LET found == Lookup(req[r].event_id, req[r].body)
       IN IF found /= {}
          THEN LET rec == CHOOSE x \in found : TRUE
               IN /\ store' = (store \ {rec}) \cup {[rec EXCEPT !.payload = req[r].body]}
                  /\ req' = [req EXCEPT ![r] = Admitted(r, rec, FALSE)]
          ELSE /\ req' = [req EXCEPT ![r] = [@ EXCEPT !.pc = "create"]]
               /\ store' = store
    /\ UNCHANGED <<settings, VERIFY_TOKEN, APP_SECRET, bucket, now, nextId, dispatched, posts, calls>>
GetOrCreateGet(r) ==
    /\ req[r].pc = "get"
    /\ LET found == Lookup(req[r].event_id, req[r].body)
       IN req' = [req EXCEPT ![r] =
             IF found /= {}
             THEN Admitted(r, CHOOSE rec \in found : TRUE, FALSE)
             ELSE [@ EXCEPT !.pc = "create"]]
    /\ UNCHANGED <<settings, VERIFY_TOKEN, APP_SECRET, bucket, now, store, nextId, dispatched, posts, calls>>

\* line 63, get_or_create's insert after a lookup that found nothing: the row
\* is created, or the unique index refuses it and the row that won is looked
\* up and returned with created = False.
GetOrCreateInsert(r) ==
    /\ req[r].pc = "create"
    /\ IF IntegrityError(req[r].event_id)
       THEN LET found == Lookup(req[r].event_id, req[r].body)
                lost == [req[r] EXCEPT !.integrityError = TRUE]
            IN /\ req' = [req EXCEPT ![r] =
                     IF ConflictResult(found) = "fetched"
                     THEN [Admitted(r, CHOOSE rec \in found : TRUE, FALSE)
                              EXCEPT !.integrityError = TRUE]
                     ELSE [lost EXCEPT !.pc = "done", !.steps = @ \o <<"admit">>,
                                       !.status = 500, !.kind = "exception",
                                       !.reply = "IntegrityError"]]
               /\ UNCHANGED <<store, nextId>>
       ELSE LET obj == [event_id |-> req[r].event_id, payload |-> req[r].body,
                        id |-> nextId, by |-> req[r].no]
            IN /\ store' = store \cup {obj}
               /\ nextId' = nextId + 1
               /\ req' = [req EXCEPT ![r] = Admitted(r, obj, TRUE)]
    /\ UNCHANGED <<settings, VERIFY_TOKEN, APP_SECRET, bucket, now, dispatched, posts, calls>>

\* lines 67-68: dispatch_event.delay(str(obj.id)) hands the record to the
\* queue and the request answers 202, or the enqueue raises and the request
\* ends in the server error of the uncaught exception.
DispatchMutant(r) ==
    /\ req[r].pc = "dispatch"
    /\ \E ok \in BOOLEAN :
         /\ dispatched' = dispatched \cup {[by |-> req[r].no, id |-> req[r].objId, ok |-> ok]}
         /\ store' = IF ok THEN store ELSE {rec \in store : rec.id /= req[r].objId}
         /\ req' = [req EXCEPT ![r] =
               LET called == [req[r] EXCEPT !.delayCalls = @ + 1, !.pc = "done",
                                            !.steps = @ \o <<"dispatch">>]
               IN IF ok THEN [called EXCEPT !.status = 202, !.kind = "status",
                                            !.reply = "accepted"]
                  ELSE [called EXCEPT !.status = 500, !.kind = "exception",
                                      !.reply = "enqueue failed"]]
    /\ UNCHANGED <<settings, VERIFY_TOKEN, APP_SECRET, bucket, now, nextId, posts, calls>>
Dispatch(r) ==
    /\ req[r].pc = "dispatch"
    /\ \E ok \in BOOLEAN :
         /\ dispatched' = dispatched \cup {[by |-> req[r].no, id |-> req[r].objId, ok |-> ok]}
         /\ req' = [req EXCEPT ![r] =
               LET called == [req[r] EXCEPT !.delayCalls = @ + 1, !.pc = "done",
                                            !.steps = @ \o <<"dispatch">>]
               IN IF ok THEN [called EXCEPT !.status = 202, !.kind = "status",
                                            !.reply = "accepted"]
                  ELSE [called EXCEPT !.status = 500, !.kind = "exception",
                                      !.reply = "enqueue failed"]]
    /\ UNCHANGED <<settings, VERIFY_TOKEN, APP_SECRET, bucket, now, store, nextId, posts, calls>>


\* --------------------------------------------------------- GET /webhook
\* line 29: mode == "subscribe" and token == VERIFY_TOKEN
HandshakeOk(mode, token) == mode = <<"subscribe">> /\ token = VERIFY_TOKEN

QueryModes == {None, <<"subscribe">>, <<"unsubscribe">>}
QueryTokens == {None, Token, <<"w">>}
QueryChallenges == {None, <<"1", "2", "3">>}

\* lines 24-32: the verification handshake, one step, its hub.verify_token
\* drawn from tokens.
GetWith(r, tokens) ==
    /\ req[r].pc = "idle"
    /\ \E mode \in QueryModes, token \in tokens, challenge \in QueryChallenges :
         LET q == [IdleReq EXCEPT !.method = "GET", !.no = posts + 1, !.pc = "done",
                                  !.mode = mode, !.token = token, !.challenge = challenge]
         IN req' = [req EXCEPT ![r] =
               IF HandshakeOk(mode, token)
               THEN [q EXCEPT !.status = 200, !.kind = "plain", !.content = challenge]
               ELSE [q EXCEPT !.status = 403, !.kind = "detail",
                              !.reply = "Invalid verification token"]]
    /\ posts' = posts + 1
    /\ UNCHANGED <<settings, VERIFY_TOKEN, APP_SECRET, bucket, now, store, nextId, dispatched, calls>>

Get(r) == GetWith(r, QueryTokens)

\* ------------------------------------------------------------ environment
\* The settings that can be put in place while the process runs.
Abc123 == <<"abc123">>
RuntimeSettings == [verify_token : {None, Token, Abc123}, app_secret : {None, Secret}]

\* settings.WHATSAPP_VERIFY_TOKEN = ..., settings.WHATSAPP_APP_SECRET = ...
\* while the process runs: django.conf.settings changes, and the names
\* views.VERIFY_TOKEN and views.APP_SECRET, bound when views was imported
\* (lines 16-17), keep their values.
SetSetting ==
    /\ \E s \in RuntimeSettings : s /= settings /\ settings' = s
    /\ UNCHANGED <<VERIFY_TOKEN, APP_SECRET, bucket, now, store, nextId, dispatched, req, posts, calls>>

\* A second passes.
Tick ==
    /\ now < MaxTime
    /\ now' = now + 1
    /\ UNCHANGED <<settings, VERIFY_TOKEN, APP_SECRET, bucket, store, nextId, dispatched, req, posts, calls>>

\* RATE_LIMITER.allow(key="whatsapp:webhook", max_tokens=10, rate_per_sec=1.5)
\* called by c: refill and consumption are one atomic step on the shared
\* bucket.
Allow(c) ==
    /\ calls[c] = "waiting"
    /\ calls' = [calls EXCEPT ![c] = IF AllowGrants(bucket, now) THEN "allowed" ELSE "denied"]
    /\ bucket' = BucketAfter(bucket, now)
    /\ UNCHANGED <<settings, VERIFY_TOKEN, APP_SECRET, now, store, nextId, dispatched, req, posts>>

\* The worker, done with a request, takes the next one.
NextRequest(r) ==
    /\ req[r].pc = "done"
    /\ posts < MaxPosts
    /\ req' = [req EXCEPT ![r] = IdleReq]
    /\ UNCHANGED <<settings, VERIFY_TOKEN, APP_SECRET, bucket, now, store, nextId, dispatched, posts, calls>>

\* ------------------------------------------------------------ the inputs
EntryA == Entry(PyStr(<<"A">>), Missing, FALSE)
EnvelopeA == Envelope(<<EntryA>>, FALSE)

\* the signature header a sender holding the secret computes
GoodSignature(body) == <<TAG>> \o HmacHexDigest(Secret, body)

\* Spec: a body that is no JSON and two different payloads of the identity "A".
SmallBodies ==
    {NotJson, EnvelopeA, Envelope(<<EntryA>>, TRUE)}

SmallInputs ==
    {[body |-> b, sig256 |-> s, legacy |-> None] : b \in SmallBodies, s \in {None}}
    \cup {[body |-> b, sig256 |-> GoodSignature(b), legacy |-> None] : b \in SmallBodies}

\* SpecOne, SpecSeq: every envelope of up to MaxEntries entries.
EntryUniverse ==
    {Entry(Missing, Missing, FALSE), Entry(Missing, Missing, TRUE), EntryA,
     Entry(PyStr(<<>>), Missing, FALSE), Entry(PyStr(<<>>), PyInt(7), FALSE),
     Entry(Missing, PyInt(0), FALSE), Entry(Missing, PyInt(7), FALSE)}

SeqsUpTo(S, n) == UNION {[1..k -> S] : k \in 0..n}

AllBodies ==
    {NotJson, NonConforming}
    \cup {Envelope(es, o) : es \in SeqsUpTo(EntryUniverse, MaxEntries), o \in BOOLEAN}

\* SpecOne, SpecSeq: every text of up to MaxSigLen tokens over the tag, the digest a
\* holder of the secret computes, a hex digit and a character outside ASCII.
SignatureTexts(body) ==
    {None} \cup SeqsUpTo({TAG, "0", NONASCII} \cup {HmacHexDigest(Secret, body)[1]}, MaxSigLen)

\* SpecStore: the bodies of Spec, one that does not conform and a payload of
\* another identity, each unsigned, well signed and badly signed.
EntryB == Entry(PyStr(<<"B">>), Missing, FALSE)

StoreBodies == SmallBodies \cup {NonConforming, Envelope(<<EntryB>>, FALSE)}

StoreInputs ==
    {[body |-> b, sig256 |-> s, legacy |-> None] : b \in StoreBodies, s \in {None, <<TAG, "0">>}}
    \cup {[body |-> b, sig256 |-> GoodSignature(b), legacy |-> None] : b \in StoreBodies}

SeqInputs ==
    {[body |-> b, sig256 |-> s, legacy |-> None] : b \in AllBodies, s \in {None}}
    \cup {[body |-> b, sig256 |-> GoodSignature(b), legacy |-> None] : b \in AllBodies}
    \cup {[body |-> EnvelopeA, sig256 |-> s, legacy |-> None] : s \in SignatureTexts(EnvelopeA)}
    \cup {[body |-> EnvelopeA, sig256 |-> s, legacy |-> GoodSignature(EnvelopeA)] :
             s \in {None, <<>>, <<"0">>}}

\* ------------------------------------------------------- specifications
\* The bucket a process finds in the shared store: none yet, or what earlier
\* traffic left, here no token or one.
NoBucket == [exists |-> FALSE, tokens |-> 0, last |-> 0]
BucketOf(tokens) == [exists |-> TRUE, tokens |-> tokens * RateDen, last |-> 0]

\* The table a process finds: empty, or holding the row of an earlier event.
InitStores ==
    {{}, {[event_id |-> <<"A">>, payload |-> EnvelopeA, id |-> 1, by |-> 0]}}

AllSettings == [verify_token : {None, Token}, app_secret : {None, <<>>, Secret}]

\* The state after the process has imported views, for the given settings,
\* table and bucket.
InitWith(configs, stores, buckets) ==
    /\ settings \in configs
    /\ VERIFY_TOKEN = settings.verify_token
    /\ APP_SECRET = settings.app_secret
    /\ bucket \in buckets
    /\ now = 0
    /\ store \in stores
    /\ nextId = Cardinality(store) + 1
    /\ dispatched = {}
    /\ req = [r \in Requests |-> IdleReq]
    /\ posts = 0
    /\ calls = [c \in Callers |-> "waiting"]

Init ==
    InitWith({c \in AllSettings : c.verify_token = Token}, InitStores, {NoBucket, BucketOf(1)})

InitOne == InitWith(AllSettings, InitStores, {NoBucket, BucketOf(0), BucketOf(1)})

InitSeq ==
    InitWith({c \in AllSettings : c.verify_token = Token /\ c.app_secret /= <<>>}, {{}}, {NoBucket})

Pipeline(r) ==
    \/ RateLimit(r)
    \/ CheckSignature(r)
    \/ Validate(r)
    \/ ComputeIdentity(r)
    \/ GetOrCreateGet(r)
    \/ GetOrCreateInsert(r)
    \/ Dispatch(r)

\* NumReq workers, one POST each, run concurrently within one second.
Next ==
    \/ \E r \in Requests : StartPost(r, SmallInputs)
    \/ \E r \in Requests : Pipeline(r)

Spec == Init /\ [][Next]_vars

\* One worker handles one request of either endpoint, drawn from all inputs.
NextOne ==
    \/ StartPost(1, SeqInputs)
    \/ Get(1)
    \/ Pipeline(1)
    \/ Tick

SpecOne == InitOne /\ [][NextOne]_vars

\* One worker handles MaxPosts requests of either endpoint, one after the
\* other.
NextSeq ==
    \/ StartPost(1, SeqInputs)
    \/ Get(1)
    \/ Pipeline(1)
    \/ NextRequest(1)
    \/ Tick

SpecSeq == InitSeq /\ [][NextSeq]_vars

\* One worker handles one request of either endpoint while the settings are
\* changed at run time.
InitLive == InitWith(AllSettings, {{}}, {NoBucket})

NextLive ==
    \/ SetSetting
    \/ StartPost(1, SmallInputs)
    \/ GetWith(1, QueryTokens \cup {Abc123})
    \/ Pipeline(1)

SpecLive == InitLive /\ [][NextLive]_vars

\* One worker handles MaxPosts POSTs, one after the other, against the table
\* and the bucket earlier traffic left.
InitStore ==
    InitWith({c \in AllSettings : c.verify_token = Token /\ c.app_secret /= <<>>},
             InitStores, {NoBucket, BucketOf(1)})

NextStore ==
    \/ StartPost(1, StoreInputs)
    \/ Pipeline(1)
    \/ NextRequest(1)

SpecStore == InitStore /\ [][NextStore]_vars

TestSettings == {c \in AllSettings : c.verify_token = Token /\ c.app_secret = Secret}

\* A burst: MaxTokens + 1 callers call allow() on the one key within one
\* instant, against a full bucket (the key not yet stored, or stored full).
InitBurst == InitWith(TestSettings, {{}}, {NoBucket, BucketOf(MaxTokens)})

NextBurst == \E c \in Callers : Allow(c)

SpecBurst == InitBurst /\ [][NextBurst]_vars

\* The limiter alone: the callers call allow() on the one key as the seconds
\* pass, against whatever bucket earlier traffic left.
InitBucket ==
    InitWith(TestSettings, {{}}, {NoBucket, BucketOf(0), BucketOf(1), BucketOf(MaxTokens)})

NextBucket ==
    \/ \E c \in Callers : Allow(c)
    \/ Tick

SpecBucket == InitBucket /\ [][NextBucket]_vars


\* ------------------------------------------------------------ the claims
Posts == {r \in Requests : req[r].method = "POST"}
Done(r) == req[r].pc = "done"

\* the requests that passed the limiter, the signature check and validation
\* and computed the identity x
Carrying(x) == {r \in Posts : req[r].event_id = x}
Identities == {req[r].event_id : r \in Posts} \ {<<>>}

RowsOf(x) == {rec \in store : rec.event_id = x}
\* a secret is configured: the setting is neither absent nor empty
HasSecret == APP_SECRET /= None /\ APP_SECRET /= <<>>
RowsBy(r) == {rec \in store : rec.by = req[r].no}
CallsBy(r) == {d \in dispatched : d.by = req[r].no}
CallsFor(id) == {d \in dispatched : d.id = id}
PreExisting(x) == \E rec \in store : rec.event_id = x /\ rec.by = 0

Duplicate(r) == req[r].status = 200 /\ req[r].kind = "status" /\ req[r].reply = "duplicate"
Accepted(r) == req[r].status = 202 /\ req[r].kind = "status" /\ req[r].reply = "accepted"
EnqueueFailed(r) == req[r].status = 500 /\ req[r].reply = "enqueue failed"

\* C1 as stated: once all the concurrent requests carrying one identity (not
\* stored before) have answered, exactly one of them has created = true and
\* answered 202 accepted, every other has answered 200 duplicate, the store
\* holds exactly one row of the identity and delay was called exactly once
\* for it.
C1_AsStated ==
    \A x \in Identities :
        (~PreExisting(x) /\ \A r \in Carrying(x) : Done(r))
        => /\ \E w \in Carrying(x) :
                /\ req[w].created /\ Accepted(w)
                /\ \A r \in Carrying(x) \ {w} : ~req[r].created /\ Duplicate(r)
           /\ Cardinality(RowsOf(x)) = 1
           /\ \A rec \in RowsOf(x) : Cardinality(CallsFor(rec.id)) = 1

\* C1 amended: as stated, except that the request with created = true answers
\* 202 accepted only if its enqueue did not raise; if it raised, that request
\* ends in the server error and the others still answer 200 duplicate.
C1_ExactlyOneAdmission ==
    \A x \in Identities :
        (~PreExisting(x) /\ \A r \in Carrying(x) : Done(r))
        => /\ \E w \in Carrying(x) :
                /\ req[w].created
                /\ req[w].delayCalls = 1
                /\ \E d \in CallsBy(w) : IF d.ok THEN Accepted(w) ELSE EnqueueFailed(w)
                /\ \A r \in Carrying(x) \ {w} :
                      ~req[r].created /\ Duplicate(r) /\ req[r].delayCalls = 0
           /\ Cardinality(RowsOf(x)) = 1
           /\ \A rec \in RowsOf(x) : Cardinality(CallsFor(rec.id)) = 1

\* C1's case: two requests of one identity raced past the lookup; the insert
\* of one was refused by the index and it answered duplicate, the other
\* answered 202.
C1_Witness ==
    \E w, r \in Posts :
        /\ w /= r /\ req[w].event_id = req[r].event_id
        /\ Accepted(w) /\ req[r].integrityError /\ Duplicate(r)

UniqueEventIds ==
    \A a, b \in store : a.event_id = b.event_id => a = b

\* A step of a request whose identity is stored, taken at get_or_create,
\* answers 200 duplicate and changes neither the table nor the calls of delay.
DuplicateStep ==
    \A r \in Requests :
        (/\ req[r].pc \in {"get", "create"}
         /\ \E rec \in store : rec.event_id = req[r].event_id
         /\ req'[r] /= req[r])
        => /\ store' = store
           /\ dispatched' = dispatched
           /\ req'[r].pc = "done" /\ req'[r].status = 200
           /\ req'[r].kind = "status" /\ req'[r].reply = "duplicate"
           /\ req'[r].delayCalls = 0

\* C2: the store never holds two rows of one event_id, and a POST whose
\* identity is stored when it reaches get_or_create answers 200 duplicate,
\* leaves the stored rows unchanged and does not call the dispatcher.
C2_Idempotent == []UniqueEventIds /\ [][DuplicateStep]_vars

\* C2's case: a request found the row of an earlier event and answered
\* duplicate, after another request of the same identity had done so too.
C2_Witness ==
    \E a, b \in Posts :
        /\ a /= b /\ Duplicate(a) /\ Duplicate(b)
        /\ req[a].event_id = req[b].event_id
        /\ PreExisting(req[a].event_id)
        /\ req[a].body /= req[b].body

\* steps a, b occur in that order in the steps of r
Precedes(r, a, b) ==
    \E i, j \in 1..Len(req[r].steps) :
        i < j /\ req[r].steps[i] = a /\ req[r].steps[j] = b

\* C3: every call of delay was made by a request whose get_or_create had
\* returned created = true for that very row, after its admission; delay is
\* called at most once per stored row; a request that answered 202 has called
\* delay exactly once.
C3_DispatchAfterAdmission ==
    /\ \A d \in dispatched :
          \E r \in Posts :
              /\ req[r].no = d.by /\ req[r].created /\ req[r].objId = d.id
              /\ Precedes(r, "admit", "dispatch")
              /\ \E rec \in store : rec.id = d.id /\ rec.by = d.by
    /\ \A rec \in store : Cardinality(CallsFor(rec.id)) <= 1
    /\ \A r \in Posts : req[r].delayCalls <= 1
    /\ \A r \in Posts :
          req[r].status = 202
          => req[r].created /\ req[r].delayCalls = 1 /\ Cardinality(CallsBy(r)) = 1

\* C3's case: one request was admitted, called delay and answered 202 while
\* another of the same identity answered duplicate without a call.
C3_Witness ==
    \E w, r \in Posts :
        /\ Accepted(w) /\ CallsBy(w) /= {}
        /\ Duplicate(r) /\ req[r].event_id = req[w].event_id /\ CallsBy(r) = {}


\* the limiter was consulted for r and denied
Denied(r) == req[r].allowCalls > 0 /\ ~req[r].allowed

\* C4: a request the limiter denied has answered 429 with nothing but the
\* limiter consulted, once, whatever its headers and body; it has stored no
\* row and has not called the dispatcher.
C4_RateLimited ==
    \A r \in Posts :
        Denied(r)
        => /\ Done(r) /\ req[r].status = 429
           /\ req[r].allowCalls = 1
           /\ req[r].steps = <<"rate">>
           /\ RowsBy(r) = {} /\ store \in InitStores
           /\ CallsBy(r) = {} /\ req[r].delayCalls = 0

\* C4's case: the limiter denied a request whose signature is good and whose
\* body is a valid envelope, with the secret configured.
C4_Witness ==
    \E r \in Posts :
        /\ Denied(r) /\ req[r].status = 429
        /\ APP_SECRET = Secret
        /\ req[r].sig256 = GoodSignature(req[r].body)
        /\ req[r].body.kind = "envelope"

\* the presented signature without one leading tag
WithoutLeadingTag(s) == IF StartsWithTag(s) THEN Tail(s) ELSE s

\* the signature step of r has run
SignatureChecked(r) == req[r].verify /= ""

\* C5 as stated: with a secret configured and a signature presented, the
\* request passes the signature step iff the signature, one leading tag
\* removed, equals the hex digest; every other signature is answered 403
\* invalid signature, with no row stored and no dispatch.
C5_AsStated ==
    \A r \in Posts :
        LET s == PresentedSignature(req[r].sig256, req[r].legacy)
        IN (SignatureChecked(r) /\ HasSecret /\ TruthyText(s))
           => IF WithoutLeadingTag(s) = HmacHexDigest(APP_SECRET, req[r].body)
              THEN req[r].verify = "valid" /\ req[r].status /= 403
              ELSE /\ req[r].status = 403 /\ req[r].reply = "Invalid signature"
                   /\ RowsBy(r) = {} /\ CallsBy(r) = {}

\* C6: with a secret configured, a request the limiter allowed that carries
\* neither signature header is answered 403 missing signature, stores no row
\* and dispatches nothing; with no secret (None or empty) the signature step
\* is skipped and the request goes on to validation, whatever it carries.
C6_MissingOrSkipped ==
    \A r \in Posts :
        /\ (/\ HasSecret /\ req[r].allowed
            /\ req[r].sig256 = None /\ req[r].legacy = None
            /\ req[r].pc /= "signature")
           => /\ Done(r) /\ req[r].status = 403
              /\ req[r].kind = "detail" /\ req[r].reply = "Missing signature"
              /\ req[r].steps = <<"rate", "signature">>
              /\ RowsBy(r) = {} /\ CallsBy(r) = {}
        /\ (~HasSecret /\ req[r].allowed /\ req[r].pc /= "signature")
           => /\ req[r].verify = "skip"
              /\ req[r].status /= 403
              /\ req[r].pc = "validate" \/ Precedes(r, "signature", "validate")

\* C6's case: the secret is the empty string, the request carries a
\* signature no secret would produce, and it has gone on to validation.
C6_Witness ==
    \E r \in Posts :
        /\ APP_SECRET = <<>>
        /\ req[r].sig256 = <<"0">>
        /\ req[r].verify = "skip"
        /\ req[r].pc = "validate"

\* C6's other case: the secret is configured, the request carries no
\* signature header and is answered 403 missing signature.
C6_WitnessMissing ==
    \E r \in Posts :
        /\ APP_SECRET = Secret /\ req[r].sig256 = None /\ req[r].legacy = None
        /\ req[r].status = 403 /\ req[r].reply = "Missing signature"

StepOrder == <<"rate", "signature", "validate", "identity", "admit", "dispatch">>

IsPrefix(a, b) == Len(a) <= Len(b) /\ \A i \in 1..Len(a) : a[i] = b[i]

Last(q) == q[Len(q)]

\* C7 as stated: the steps of a request are an initial part of the order rate
\* limit, signature, validation, identity, admission, dispatch, each run at
\* most once, and a request that has ended has one outcome of the table,
\* fixed by the last step it ran.
C7_AsStated ==
    \A r \in Posts :
        /\ IsPrefix(req[r].steps, StepOrder)
        /\ Done(r)
           => \/ req[r].status = 429 /\ Last(req[r].steps) = "rate"
              \/ req[r].status = 403 /\ Last(req[r].steps) = "signature"
              \/ req[r].status = 400 /\ Last(req[r].steps) = "validate"
              \/ Duplicate(r) /\ Last(req[r].steps) = "admit"
              \/ Accepted(r) /\ Last(req[r].steps) = "dispatch"


\* no entry of the payload has an id or a time
AllEmpty(payload) ==
    /\ payload.kind = "envelope"
    /\ \A i \in 1..Len(payload.entry) :
          payload.entry[i].id = Missing /\ payload.entry[i].time = Missing

\* C8 as stated: a request whose payload has no id and no time in any entry,
\* posted after a different payload of that kind was stored, is given another
\* identity than that row and is admitted as new, not answered duplicate.
C8_AsStated ==
    \A r \in Posts :
        \A rec \in store :
            (/\ Done(r) /\ Last(req[r].steps) \in {"admit", "dispatch"}
             /\ AllEmpty(req[r].body) /\ AllEmpty(rec.payload)
             /\ rec.payload /= req[r].body
             /\ rec.by < req[r].no)
            => /\ req[r].event_id /= rec.event_id
               /\ req[r].created /\ ~Duplicate(r)

\* the key the claim gives an entry: str(id) if it has an id, else str(time)
\* if it has a time, else ""
StatedKey(e) ==
    IF e.id /= Missing THEN PyStrOf(e.id)
    ELSE IF e.time /= Missing THEN PyStrOf(e.time)
    ELSE <<>>

StatedKeys(entry) == [i \in 1..Len(entry) |-> StatedKey(entry[i])]

Keyed(e) == e.id /= Missing \/ e.time /= Missing

\* C9 as stated: the identity computed for an envelope with an id or a time
\* in some entry is the "|"-join of the entries' keys, an entry's key being
\* the text of its id if it has one, else of its time if it has one, else
\* empty, whatever the values; with two or more keyed entries it holds "|".
C9_AsStated ==
    \A r \in Posts :
        (req[r].event_id /= <<>> /\ ~AllEmpty(req[r].body))
        => /\ req[r].event_id = Join("|", StatedKeys(req[r].body.entry))
           /\ Cardinality({i \in 1..Len(req[r].body.entry) : Keyed(req[r].body.entry[i])}) >= 2
              => \E i \in 1..Len(req[r].event_id) : req[r].event_id[i] = "|"

Gets == {r \in Requests : req[r].method = "GET"}

\* C10 as stated: the handshake answers 200 with the challenge as its body
\* iff hub.mode is "subscribe" and hub.verify_token is the configured verify
\* token, and 403 in every other case, with a parameter absent or the token
\* unset; it touches neither the store, nor the bucket, nor the dispatcher.
C10_AsStated ==
    \A r \in Gets :
        /\ IF /\ req[r].mode = <<"subscribe">>
              /\ VERIFY_TOKEN /= None /\ req[r].token /= None
              /\ req[r].token = VERIFY_TOKEN
           THEN req[r].status = 200 /\ req[r].content = req[r].challenge
           ELSE req[r].status = 403
        /\ store \in InitStores /\ dispatched = {}
        /\ bucket \in {NoBucket, BucketOf(0), BucketOf(1)}

\* the step in which the handshake of r is answered
HandshakeStep(r) == req[r].pc = "idle" /\ req'[r].method = "GET"

\* the step in which the signature check of r runs
SignatureStep(r) == req[r].pc = "signature" /\ req'[r].pc /= "signature"

\* A request is judged by the settings in effect in the step that handles it.
JudgedBySettings ==
    \A r \in Requests :
        /\ HandshakeStep(r)
           => IF req'[r].mode = <<"subscribe">> /\ req'[r].token = settings.verify_token
              THEN req'[r].status = 200 /\ req'[r].content = req'[r].challenge
              ELSE req'[r].status = 403
        /\ SignatureStep(r)
           => req'[r].verify =
                 Verify(settings.app_secret, req[r].body, req[r].sig256, req[r].legacy)

\* C11 as stated: the verify token and the app secret that judge a request
\* are the values the settings hold when the request is handled: once the
\* verify token is set to "abc123" at run time, the handshake presenting
\* "abc123" answers 200 with the challenge, and once the app secret is set to
\* None at run time, a POST without a signature header passes the signature
\* step.
C11_AsStated == [][JudgedBySettings]_vars

\* C12 as stated: with a secret configured, a request the limiter allowed
\* whose signature was found not to match is answered 403 and has written
\* exactly one warning-level log record.
C12_AsStated ==
    \A r \in Posts :
        (HasSecret /\ req[r].allowed /\ req[r].verify = "invalid")
        => /\ Done(r) /\ req[r].status = 403
           /\ req[r].warnings = 1

AllowedCalls == {c \in Callers : calls[c] = "allowed"}
DeniedCalls == {c \in Callers : calls[c] = "denied"}
AllCalled == \A c \in Callers : calls[c] /= "waiting"

\* C13: of a burst of MaxTokens + 1 simultaneous allow() calls on the one key
\* against a full bucket, in whatever order they take effect, exactly
\* MaxTokens are allowed and one is denied; every allowed call has taken a
\* token of its own, the bucket holding what was full less one token per
\* allowed call.
C13_Burst ==
    /\ Cardinality(AllowedCalls) <= MaxTokens
    /\ bucket.exists /\ AllowedCalls /= {}
       => bucket.tokens = FullBucket - RateDen * Cardinality(AllowedCalls)
    /\ AllCalled
       => Cardinality(AllowedCalls) = MaxTokens /\ Cardinality(DeniedCalls) = 1

\* C13's case: the whole burst has called, and the call that was denied is
\* not the last caller's but the first's.
C13_Witness ==
    /\ AllCalled
    /\ calls[1] = "denied"
    /\ \A c \in Callers \ {1} : calls[c] = "allowed"

\* the refilled count of the claim, in units of 1/RateDen token:
\* min(capacity, tokens + elapsed * rate), a key not yet stored being full
StatedRefill ==
    IF ~bucket.exists THEN MaxTokens * RateDen
    ELSE LET grown == bucket.tokens + (now - bucket.last) * RateNum
         IN IF grown > MaxTokens * RateDen THEN MaxTokens * RateDen ELSE grown

TokensInRange == bucket.tokens >= 0 /\ bucket.tokens <= MaxTokens * RateDen

\* A call of allow() returns true iff the refilled count holds one token; it
\* then stores the refilled count less one token, else the refilled count.
AllowStep ==
    \A c \in Callers :
        calls'[c] /= calls[c]
        => /\ calls'[c] = "allowed" <=> StatedRefill >= RateDen
           /\ calls'[c] = "allowed" => bucket'.tokens = StatedRefill - RateDen
           /\ calls'[c] = "denied" => bucket'.tokens = StatedRefill
           /\ bucket'.exists /\ bucket'.last = now

\* C14: in every reachable state of the bucket, after any sequence of allow()
\* calls and any times elapsed between them, 0 <= tokens <= capacity; a call
\* that returns true lowers the refilled count by exactly one token and a call
\* that returns false stores the refilled count as it is.
C14_BucketInvariant == []TokensInRange /\ [][AllowStep]_vars

\* C14's case: after a second of refill a call was allowed and the next one
\* denied, the denial storing the half token the refill had left.
C14_Witness ==
    /\ bucket.exists /\ bucket.last = 1 /\ bucket.tokens = 1
    /\ AllowedCalls /= {} /\ DeniedCalls /= {}

\* the record of r's identity, as retrieved by event_id, holds r's body
Retrieved(r) == \A rec \in RowsOf(req[r].event_id) : rec.payload = req[r].body

\* A request that was returned created = true retrieves by its event_id one
\* record, holding its body.
RoundTrip ==
    \A r \in Posts :
        req[r].created
        => Cardinality(RowsOf(req[r].event_id)) = 1 /\ Retrieved(r)

\* A record is stored by a request at get_or_create, with that request's
\* body and identity; a stored record is neither modified nor deleted.
StoredOnce ==
    /\ \A rec \in store' \ store :
          \E r \in Requests :
              /\ req[r].pc = "create" /\ req'[r].created
              /\ rec.payload = req[r].body /\ rec.event_id = req[r].event_id
    /\ \A rec \in store : rec \in store'

\* C15: the record retrieved by an admitted event_id holds the payload of the
\* admitting request as decoded from its body, and no later request, be it a
\* duplicate, a rejected one or one of another identity, modifies or deletes
\* it.
C15_RoundTrip == []RoundTrip /\ [][StoredOnce]_vars

\* C15's case: the first request was admitted; the second, carrying another
\* payload of the same identity, was answered duplicate and the record still
\* holds the first payload.
C15_Witness ==
    \E r \in Posts :
        /\ req[r].no = 2 /\ Duplicate(r)
        /\ \E rec \in RowsOf(req[r].event_id) :
              rec.by = 1 /\ rec.payload /= req[r].body

FailedCalls == {d \in dispatched : ~d.ok}

\* C16: when the enqueue of a request that was returned created = true
\* fails, the request ends in its error outcome, not in 202, and the record
\* it created is in the store then and ever after: the admission is not
\* rolled back.
C16_NotRolledBack ==
    /\ \A d \in FailedCalls :
          \E rec \in store : rec.id = d.id /\ rec.by = d.by
    /\ \A r \in Posts :
          (Done(r) /\ CallsBy(r) \cap FailedCalls /= {})
          => /\ req[r].created
             /\ req[r].status = 500 /\ req[r].kind = "exception"
             /\ \E rec \in RowsOf(req[r].event_id) :
                   rec.id = req[r].objId /\ rec.payload = req[r].body

\* C16's case: the enqueue of the first request failed; the second request
\* has been handled and the record of the first is still stored.
C16_Witness ==
    /\ \E d \in FailedCalls : d.by = 1 /\ \E rec \in store : rec.id = d.id
    /\ \E r \in Posts : req[r].no = 2 /\ Done(r)

\* r passed the signature step: the check was skipped or the signature valid
PassedSignature(r) == req[r].verify \in {"skip", "valid"}

\* C17: a request the limiter allowed that passed the signature step and
\* whose body is no JSON, or does not conform to the envelope, is answered 400
\* or 415 at validation, stores no row and does not call the dispatcher.
C17_BadRequest ==
    \A r \in Posts :
        (/\ req[r].allowed /\ PassedSignature(r)
         /\ req[r].body.kind \in {"notjson", "nonconforming"}
         /\ req[r].pc /= "validate")
        => /\ Done(r) /\ req[r].status \in {400, 415}
           /\ req[r].steps = <<"rate", "signature", "validate">>
           /\ RowsBy(r) = {} /\ store \in InitStores
           /\ CallsBy(r) = {} /\ req[r].delayCalls = 0

\* C17's case: with the secret configured, a well signed body that does not
\* conform to the envelope was answered 400.
C17_Witness ==
    \E r \in Posts :
        /\ APP_SECRET = Secret /\ req[r].verify = "valid"
        /\ req[r].body.kind = "nonconforming"
        /\ req[r].status = 400

\* r was answered with a rejection: 429, 403 or 400
Rejected(r) == Done(r) /\ req[r].status \in {429, 403, 400}

\* C18 as stated: every rejection of either endpoint, 429 rate limited, 403
\* missing or invalid signature, 403 failed handshake, 400 bad request,
\* carries a JSON body with a detail field.
C18_AsStated ==
    \A r \in Requests : Rejected(r) => req[r].kind = "detail"

\* Every call of delay for a stored record was made by the request that
\* stored it, and a record whose enqueue failed has no other call.
OnlyByAdmitter ==
    \A rec \in store :
        /\ \A d \in CallsFor(rec.id) : d.by = rec.by
        /\ CallsFor(rec.id) \cap FailedCalls /= {} => Cardinality(CallsFor(rec.id)) = 1

\* A request that has been through get_or_create and did not store the
\* record of its identity has answered 200 duplicate without calling delay.
RedeliveryIsDuplicate ==
    \A r \in Posts :
        (Done(r) /\ "admit" \in {req[r].steps[i] : i \in 1..Len(req[r].steps)}
         /\ \E rec \in RowsOf(req[r].event_id) : rec.by /= req[r].no)
        => Duplicate(r) /\ req[r].delayCalls = 0 /\ CallsBy(r) = {}

\* C19: once an identity has a stored record, no later request carrying it
\* calls the dispatcher, also when the enqueue of the admitting request
\* failed: every redelivery is answered 200 duplicate, and a record whose
\* enqueue failed is never handed to the dispatcher again.
C19_NoRedispatch == OnlyByAdmitter /\ RedeliveryIsDuplicate

\* C19's case: the enqueue of the first request failed, and the redelivery
\* of its event was answered 200 duplicate without a call of delay.
C19_Witness ==
    \E r \in Posts :
        /\ req[r].no = 2 /\ Duplicate(r) /\ CallsBy(r) = {}
        /\ \E rec \in RowsOf(req[r].event_id) :
              /\ rec.by = 1 /\ rec.payload = req[r].body
              /\ CallsFor(rec.id) /= {} /\ CallsFor(rec.id) \subseteq FailedCalls

\* the requests that reached the signature step
ReachedSignature == {r \in Posts : req[r].pc \notin {"idle", "rate"} /\ req[r].status /= 429}

\* the requests the limiter granted a token
Granted == {r \in Posts : req[r].allowCalls > 0 /\ req[r].allowed}

\* C20: every POST consults the limiter exactly once, first, on the one
\* shared bucket; each request that got past it has taken one token of that
\* bucket, whether it was then rejected for its signature or its body,
\* answered duplicate or accepted; the requests that reached the signature
\* step are no more than the tokens granted.
C20_OneTokenEach ==
    /\ \A r \in Posts :
          /\ req[r].allowCalls <= 1
          /\ req[r].pc /= "rate" => req[r].allowCalls = 1 /\ req[r].steps[1] = "rate"
          /\ r \in ReachedSignature => r \in Granted
    /\ Cardinality(ReachedSignature) <= Cardinality(Granted)
    /\ bucket.tokens >= 0
    /\ bucket.exists
       => bucket.tokens + RateDen * Cardinality(ReachedSignature)
             \in {MaxTokens * RateDen, RateDen}

\* C20's case: two requests were allowed, one then rejected for its missing
\* signature and one accepted, and the bucket is two tokens short of full.
C20_Witness ==
    /\ \E a, b \in Posts :
          /\ req[a].status = 403 /\ req[a].reply = "Missing signature"
          /\ Accepted(b)
    /\ bucket.tokens = (MaxTokens - 2) * RateDen

=============================================================================
